---- MODULE Spec2Model ----
(***************************************************************************)
(* A model of the astra task layer:                                        *)
(*   - the `task` decorator and `_bulk_insert` of astra/__init__.py        *)
(*     (specification Spec);                                               *)
(*   - the parameter / task-instance / output helpers of                   *)
(*     astra/database/utils.py (specifications SpecParameter,              *)
(*     SpecRegistry and SpecOutput).                                       *)
(* Every specification ranges over all the variables; the variables of    *)
(* the other component stay at their initial value.                        *)
(***************************************************************************)
EXTENDS Integers, Sequences, FiniteSets, TLC

\* ------------------------------------------------------------------ bounds
\* The longest computation: the number of records a task may produce.
MaxRecords == 3
\* The largest batch_size a task is invoked with (1..MaxBatch).
MaxBatch == 2

\* ------------------------------------------------------------------ state
VARIABLES
    \* ---- astra/__init__.py: one invocation of a @task function
    pc,                  \* the position of the `task` generator
    re_raise_exceptions, \* kwargs.pop("re_raise_exceptions", True)
    batch_size,          \* kwargs.pop("batch_size", 999)
    backend,             \* the family of astra.models.base.database
    gen,                 \* the generator f: "live", "finished" or "raised"
    produced,            \* how many records f has produced
    results,             \* the pending batch (the list `results`)
    yieldIdx,            \* how far `yield from results` has got
    yielded,             \* what the caller has observed, in order
    calls,               \* the _bulk_insert calls made: argument and outcome
    table,               \* the rows of the result table in the store
    tableExists,         \* model.table_exists()
    nextId,              \* the store's next generated identifier
    \* ---- astra/database/utils.py: the relational store and its callers
    parameter,           \* rows of astradb.Parameter
    task_instance,       \* rows of astradb.TaskInstance
    task_instance_parameter, \* rows of astradb.TaskInstanceParameter
    output_interface,    \* rows (pks) of astradb.OutputInterface
    output_record,       \* rows of a result table (ti_pk, output_pk)
    proc,                \* per process: the call in progress and its locals
    history,             \* the calls that returned, in order of return
    \* ---- the file system, as far as primary keys are passed through it
    files                \* the temporary files: path and text

rvars == <<pc, re_raise_exceptions, batch_size, backend, gen, produced,
           results, yieldIdx, yielded, calls, table, tableExists, nextId>>
dvars == <<parameter, task_instance, task_instance_parameter,
           output_interface, output_record, proc, history>>
fvars == <<files>>
vars == <<rvars, dvars, fvars>>

\* A null primary key (a record that was never given an identifier).
NULL == 0

\* ------------------------------------------------------------ sequences
Range(s) == {s[i] : i \in 1..Len(s)}

RECURSIVE SumLen(_)
SumLen(ss) == IF ss = <<>> THEN 0 ELSE Len(Head(ss)) + SumLen(Tail(ss))

RECURSIVE Concat(_)
Concat(ss) == IF ss = <<>> THEN <<>> ELSE Head(ss) \o Concat(Tail(ss))

Keys(recs) == [i \in 1..Len(recs) |-> recs[i].key]

IsIncreasing(s) == \A i, j \in 1..Len(s) : i < j => s[i] < s[j]


\* =========================================================================
\* astra/database/utils.py: the value serialization and the store
\* =========================================================================

\* A parameter value as the caller gives it: a string or an integer.
StrVal(text) == [type |-> "str", v |-> text]
IntVal(n) == [type |-> "int", v |-> n]

\* json.dumps of a non-negative integer: its decimal digits.
Digit(d) == <<"0", "1", "2", "3", "4", "5", "6", "7", "8", "9">>[d + 1]
RECURSIVE JsonDumpsInt(_)
JsonDumpsInt(n) ==
    IF n < 10 THEN Digit(n) ELSE JsonDumpsInt(n \div 10) \o Digit(n % 10)

SerializeToOneText(val) == "v"

\* serialize(v): a string passes through, anything else goes to json.dumps.
Serialize(val) == IF val.type = "str" THEN val.v ELSE JsonDumpsInt(val.v)

\* The processes that call into the store, and a process outside any call.
Procs == {1, 2}
Idle == [op |-> "idle"]

\* The next value of a table's primary-key sequence.
MaxPk(pks) == IF pks = {} THEN 0 ELSE CHOOSE m \in pks : \A x \in pks : x <= m
NextPk(rows) == MaxPk({r.pk : r \in rows}) + 1

\* session.query(astradb.Parameter).filter_by(**kwds).one_or_none(): the pk
\* of the row, or NULL.  (The table never holds two rows for one pair.)
LookupParameter(tbl, name, sval) ==
    LET hit == {r \in tbl : r.name = name /\ r.value = sval}
    IN  IF hit = {} THEN NULL ELSE (CHOOSE r \in hit : TRUE).pk

\* The uniqueness constraint of the parameter table on (name, value): an
\* insert of a pair that is already stored raises IntegrityError.
UniqueViolation(tbl, name, sval) ==
    \E r \in tbl : r.name = name /\ r.value = sval

ReplaceParameter(tbl, name, sval) ==
    {[pk |-> NextPk(tbl), name |-> name, value |-> sval]}

\* session.add(astradb.Parameter(**kwds)), committed.
InsertParameter(tbl, name, sval) ==
    tbl \cup {[pk |-> NextPk(tbl), name |-> name, value |-> sval]}

\* The store before any call, and no call in progress.
DbInit ==
    /\ parameter = {}
    /\ task_instance = {}
    /\ task_instance_parameter = {}
    /\ output_interface = {}
    /\ output_record = {}
    /\ proc = [p \in Procs |-> Idle]
    /\ history = <<>>

\* The store is not in use (the specification of the task runner).
StoreIdle == DbInit

\* No temporary file has been written.
NoFiles == files = {}

\* =========================================================================
\* astra/__init__.py
\* =========================================================================

Backends == {"sqlite", "postgresql"}
Faults == {"IntegrityError", "OtherError"}

\* A result record: its production number, whether it holds unsaved field
\* values (peewee's is_dirty), and its primary key (NULL until generated).
FreshRecord(k) == [key |-> k, dirty |-> TRUE, id |-> NULL]
\* A record the computation saved itself before yielding it.
SavedRecord(k, id) == [key |-> k, dirty |-> FALSE, id |-> id]

\* peewee.chunked(results, n), 1-based: the chunk holding position i, the
\* first position of chunk c, and the number of chunks of len records.
ChunkOf(i, n) == ((i - 1) \div n) + 1
ChunkStart(c, n) == (c - 1) * n + 1
FloorChunks(len, n) == len \div n
NumChunks(len, n) == (len + n - 1) \div n
Chunked(s, n) ==
    [c \in 1..NumChunks(Len(s), n) |->
        SubSeq(s, ChunkStart(c, n),
               IF c * n < Len(s) THEN c * n ELSE Len(s))]

DirtyBefore(recs, i) == Cardinality({j \in 1..(i - 1) : recs[j].dirty})

SqliteCreateKeepsOld(rec, id) == rec

\* results[i] = model.create(**_result.__data__)
SqliteCreate(rec, id) == [key |-> rec.key, dirty |-> FALSE, id |-> id]

\* The SQLite branch: every dirty record before the failing position is
\* re-created and replaces its list entry.  failAt = 0: no fault.
SqliteResults(recs, failAt, nid) ==
    [i \in 1..Len(recs) |->
        IF recs[i].dirty /\ (failAt = 0 \/ i < failAt)
        THEN SqliteCreate(recs[i], nid + DirtyBefore(recs, i))
        ELSE recs[i]]

SqliteRowsNone(recs, bs, failAt, nid) == {}

\* batch_commit wraps each chunk in database.atomic(): a fault rolls back
\* the chunk it happens in, the chunks before it stay committed.
SqliteRows(recs, bs, failAt, nid) ==
    {[id |-> nid + DirtyBefore(recs, i), key |-> recs[i].key] :
        i \in {j \in 1..Len(recs) :
                 /\ recs[j].dirty
                 /\ (failAt = 0 \/ j < ChunkStart(ChunkOf(failAt, bs), bs))}}

SqliteNextId(recs, failAt, nid) ==
    nid + DirtyBefore(recs, IF failAt = 0 THEN Len(recs) + 1 ELSE failAt)

\* The other branch: model.bulk_create inserts chunk after chunk inside one
\* database.atomic() and sets the returned keys on the records of a chunk.
BulkCreateResults(recs, bs, failAt, nid) ==
    [i \in 1..Len(recs) |->
        IF failAt = 0 \/ ChunkOf(i, bs) < ChunkOf(failAt, bs)
        THEN [recs[i] EXCEPT !.id = nid + i - 1]
        ELSE recs[i]]

BulkCreateRowsPerChunk(recs, bs, failAt, nid) ==
    {[id |-> nid + i - 1, key |-> recs[i].key] :
        i \in {j \in 1..Len(recs) :
                 failAt = 0 \/ ChunkOf(j, bs) < ChunkOf(failAt, bs)}}

BulkCreateRows(recs, bs, failAt, nid) ==
    IF failAt = 0
    THEN {[id |-> nid + i - 1, key |-> recs[i].key] : i \in 1..Len(recs)}
    ELSE {}

BulkCreateNextId(recs, bs, failAt, nid) ==
    IF failAt = 0 THEN nid + Len(recs)
    ELSE nid + ChunkStart(ChunkOf(failAt, bs), bs) - 1

\* The positions at which the store may refuse an insert (0: nowhere).
FailPoints(recs, be) ==
    {0} \cup {i \in 1..Len(recs) : be = "postgresql" \/ recs[i].dirty}

\* The try block of _bulk_insert: the list as it is left, the rows
\* committed, and the store's identifier counter.
InsertAll(recs, bs, be, failAt, nid) ==
    IF be = "sqlite"
    THEN [results |-> SqliteResults(recs, failAt, nid),
          rows    |-> SqliteRows(recs, bs, failAt, nid),
          nextId  |-> SqliteNextId(recs, failAt, nid)]
    ELSE [results |-> BulkCreateResults(recs, bs, failAt, nid),
          rows    |-> BulkCreateRows(recs, bs, failAt, nid),
          nextId  |-> BulkCreateNextId(recs, bs, failAt, nid)]

OutcomeIgnoresFlag(failAt, rr) == IF failAt = 0 THEN "ok" ELSE "swallowed"

\* The except clauses: how a call with the given fault ends.
Outcome(failAt, rr) ==
    IF failAt = 0 THEN "ok" ELSE IF rr THEN "raised" ELSE "swallowed"

CallEntry(recs, bs, failAt, fault, rr) ==
    [keys    |-> Keys(recs),
     chunks  |-> Chunked(Keys(recs), bs),
     outcome |-> Outcome(failAt, rr),
     fault   |-> IF failAt = 0 THEN "none" ELSE fault]

NeverSkips(recs) == FALSE

\* `if not results: return None`, before the store is looked at.
SkipsStore(recs) == recs = <<>>

\* _bulk_insert(results, batch_size, re_raise_exceptions), called where the
\* generator is at `at`; it goes on at `to` unless the call raises.
BulkInsert(at, to) ==
    /\ pc = at
    /\ \E failAt \in FailPoints(results, backend), fault \in Faults :
         LET r == InsertAll(results, batch_size, backend, failAt, nextId)
         IN  /\ (failAt = 0 => fault = "IntegrityError")
             /\ calls' = Append(calls,
                    CallEntry(results, batch_size, failAt, fault,
                              re_raise_exceptions))
             /\ IF SkipsStore(results)
                THEN UNCHANGED <<results, table, tableExists, nextId>>
                ELSE /\ results' = r.results
                     /\ table' = table \cup r.rows
                     /\ tableExists' = TRUE
                     /\ nextId' = r.nextId
             /\ pc' = IF Outcome(failAt, re_raise_exceptions) = "raised"
                      THEN "failed" ELSE to
    /\ yieldIdx' = 0
    /\ UNCHANGED <<re_raise_exceptions, batch_size, backend, gen,
                   produced, yielded, dvars, fvars>>


\* Timer.check_point after a pull: the wall clock decides, so either value.
CheckPoint == BOOLEAN

AppendFirst(res, rec) == <<rec>> \o res

\* results.append(result)
AppendResult(res, rec) == Append(res, rec)

YieldBeforeInsert(cp) == IF cp THEN "yield_checkpoint" ELSE "pull"

\* The else clause of the loop: `if timer.check_point:` leads to the flush.
AfterPull(cp) == IF cp THEN "checkpoint" ELSE "pull"

StopWithoutDrain == "done"

\* `except StopIteration: break` leads to the code after the loop.
AfterStop == "drain"

ContinueAfterRaise(rr) == "pull"
CheckpointAfterRaise(rr) == IF rr THEN "failed" ELSE "checkpoint"
FailAfterRaise(rr) == "failed"

\* The bare except around next(timer): `if re_raise_exceptions: raise`,
\* otherwise the loop goes round to the next pull.
AfterRaise(rr) == IF rr THEN "failed" ELSE "pull"

KeepBatch(res) == res

\* results = [] after a checkpoint's yield
ClearBatch(res) == <<>>

\* result = next(timer) returns a record: a new one, or one the computation
\* has already saved itself.
PullRecord ==
    /\ pc = "pull"
    /\ gen = "live"
    /\ produced < MaxRecords
    /\ produced' = produced + 1
    /\ \E saved \in BOOLEAN :
         IF saved
         THEN /\ results' = AppendResult(results,
                                SavedRecord(produced + 1, nextId))
              /\ table' = table \cup {[id |-> nextId, key |-> produced + 1]}
              /\ tableExists' = TRUE
              /\ nextId' = nextId + 1
         ELSE /\ results' = AppendResult(results, FreshRecord(produced + 1))
              /\ UNCHANGED <<table, tableExists, nextId>>
    /\ \E cp \in CheckPoint : pc' = AfterPull(cp)
    /\ UNCHANGED <<re_raise_exceptions, batch_size, backend, gen, yieldIdx,
                   yielded, calls, dvars, fvars>>

\* next(timer) raises StopIteration: the computation returns, or it had
\* raised before (a generator that raised is exhausted).
PullStop ==
    /\ pc = "pull"
    /\ gen' = IF gen = "live" THEN "finished" ELSE gen
    /\ pc' = AfterStop
    /\ UNCHANGED <<re_raise_exceptions, batch_size, backend, produced,
                   results, yieldIdx, yielded, calls, table, tableExists,
                   nextId, dvars, fvars>>

\* next(timer) raises anything else: logged, and re-raised if the flag says so.
PullRaise ==
    /\ pc = "pull"
    /\ gen = "live"
    /\ gen' = "raised"
    /\ pc' = AfterRaise(re_raise_exceptions)
    /\ UNCHANGED <<re_raise_exceptions, batch_size, backend, produced,
                   results, yieldIdx, yielded, calls, table, tableExists,
                   nextId, dvars, fvars>>

\* _bulk_insert(results, ...) at a checkpoint (inside timer.pause()).
CheckpointInsert == BulkInsert("checkpoint", "yield_checkpoint")

\* One step of `yield from results`: the caller receives the next record.
YieldOne(at) ==
    /\ pc = at
    /\ yieldIdx < Len(results)
    /\ yielded' = Append(yielded, results[yieldIdx + 1])
    /\ yieldIdx' = yieldIdx + 1
    /\ UNCHANGED <<pc, re_raise_exceptions, batch_size, backend, gen,
                   produced, results, calls, table, tableExists, nextId,
                   dvars, fvars>>

YieldCheckpoint == YieldOne("yield_checkpoint")

\* `yield from results` is exhausted: results = [] and back to the loop.
Resume ==
    /\ pc = "yield_checkpoint"
    /\ yieldIdx = Len(results)
    /\ results' = ClearBatch(results)
    /\ yieldIdx' = 0
    /\ pc' = "pull"
    /\ UNCHANGED <<re_raise_exceptions, batch_size, backend, gen, produced,
                   yielded, calls, table, tableExists, nextId, dvars,
                   fvars>>

\* The _bulk_insert after the loop: "Write any remaining results".
DrainInsert == BulkInsert("drain", "yield_drain")

YieldDrain == YieldOne("yield_drain")

\* The final `yield from results` is exhausted: the generator returns.
Finish ==
    /\ pc = "yield_drain"
    /\ yieldIdx = Len(results)
    /\ pc' = "done"
    /\ UNCHANGED <<re_raise_exceptions, batch_size, backend, gen, produced,
                   results, yieldIdx, yielded, calls, table, tableExists,
                   nextId, dvars, fvars>>

RunnerInit ==
    /\ pc = "pull"
    /\ re_raise_exceptions \in BOOLEAN
    /\ batch_size \in 1..MaxBatch
    /\ backend \in Backends
    /\ gen = "live"
    /\ produced = 0
    /\ results = <<>>
    /\ yieldIdx = 0
    /\ yielded = <<>>
    /\ calls = <<>>
    /\ table = {}
    /\ tableExists \in BOOLEAN
    /\ nextId = 1

Init == RunnerInit /\ StoreIdle /\ NoFiles

Next ==
    \/ PullRecord
    \/ PullStop
    \/ PullRaise
    \/ CheckpointInsert
    \/ YieldCheckpoint
    \/ Resume
    \/ DrainInsert
    \/ YieldDrain
    \/ Finish

Spec == Init /\ [][Next]_vars

\* The same runner with a caller who consumes the generator to its end and
\* a computation whose every step returns: no enabled step is put off
\* for ever.
SpecFair == Spec /\ WF_vars(Next)


\* =========================================================================
\* Properties of the task runner (specification Spec)
\* =========================================================================

CallKeys == [c \in 1..Len(calls) |-> calls[c].keys]
\* The calls of _bulk_insert that returned to the runner.
Returned(c) == calls[c].outcome # "raised"
TimesYielded(k) == Cardinality({i \in 1..Len(yielded) : yielded[i].key = k})
TimesWritten(k) ==
    Cardinality(UNION {{<<c, j>> : j \in {n \in 1..Len(calls[c].keys) :
                                             calls[c].keys[n] = k}} :
                       c \in 1..Len(calls)})
CleanRun ==
    /\ pc = "done"
    /\ gen = "finished"
    /\ \A c \in 1..Len(calls) : calls[c].outcome = "ok"

\* C1: when a computation that produced N records without raising is
\* exhausted and every batch write succeeded, the caller has been yielded
\* N records and the _bulk_insert calls were passed N records in total:
\* each produced record was yielded exactly once and passed to exactly one
\* call, wherever the checkpoints fell.
C1_NoLossNoDuplication ==
    CleanRun =>
        /\ Len(yielded) = produced
        /\ SumLen(CallKeys) = produced
        /\ \A k \in 1..produced : TimesYielded(k) = 1 /\ TimesWritten(k) = 1

C1_Witness ==
    /\ CleanRun
    /\ produced >= 2
    /\ \E c \in 1..Len(calls) : c < Len(calls) /\ calls[c].keys # <<>>

\* C2: a record reaches the caller only after a _bulk_insert call that was
\* passed it has returned, and while a batch is being yielded the whole
\* pending batch is the argument of the last call, which has returned.
C2_YieldAfterInsert ==
    /\ \A i \in 1..Len(yielded) :
         \E c \in 1..Len(calls) :
            Returned(c) /\ yielded[i].key \in Range(calls[c].keys)
    /\ (pc \in {"yield_checkpoint", "yield_drain"} =>
          /\ calls # <<>>
          /\ Returned(Len(calls))
          /\ calls[Len(calls)].keys = Keys(results))

C2_Witness ==
    /\ pc = "yield_checkpoint"
    /\ Len(results) >= 2
    /\ yieldIdx = 1

\* C3 as stated: every record the caller observes carries a generated
\* identifier, on either backend and with either value of the flag.
C3_EveryYieldedHasId ==
    \A i \in 1..Len(yielded) : yielded[i].id # NULL

\* C3 as amended: a record the caller observes carries a generated
\* identifier if a _bulk_insert call that was passed it ended without a
\* storage fault, on either backend; with the flag true that is every
\* record the caller observes.
C3_YieldedHasIdUnlessFault ==
    /\ \A i \in 1..Len(yielded) :
         (\E c \in 1..Len(calls) :
             /\ calls[c].outcome = "ok"
             /\ yielded[i].key \in Range(calls[c].keys))
         => yielded[i].id # NULL
    /\ (re_raise_exceptions => C3_EveryYieldedHasId)

C3_Witness ==
    /\ backend = "sqlite"
    /\ ~re_raise_exceptions
    /\ \E c \in 1..Len(calls) : calls[c].outcome = "swallowed"
    /\ \E i, j \in 1..Len(yielded) :
         yielded[i].id = NULL /\ yielded[j].id # NULL /\ yielded[j].dirty = FALSE

\* C9: when the runner completes, every record it pulled has been passed
\* to _bulk_insert and yielded, also when no checkpoint ever happened.
C9_DrainBeforeDone ==
    pc = "done" =>
        /\ yieldIdx = Len(results)
        /\ \A k \in 1..produced :
             /\ \E c \in 1..Len(calls) : k \in Range(calls[c].keys)
             /\ \E i \in 1..Len(yielded) : yielded[i].key = k

C9_Witness ==
    /\ pc = "done"
    /\ Len(calls) = 1
    /\ Len(yielded) >= 2

\* C10: records are passed to _bulk_insert and yielded in the order the
\* computation produced them, across checkpoint batches and the drain.
C10_ProductionOrder ==
    /\ IsIncreasing(Keys(yielded))
    /\ IsIncreasing(Concat(CallKeys))

C10_Witness ==
    /\ pc = "done"
    /\ Len(yielded) >= 3
    /\ \E c \in 1..Len(calls) : c < Len(calls) /\ calls[c].keys # <<>>
    /\ calls[Len(calls)].keys # <<>>


\* C11: with re_raise_exceptions true, once the computation has raised
\* during a pull the invocation has failed (the exception is the caller's)
\* and from then on nothing is pulled, written or yielded.
C11_RaisePropagates ==
    [][(re_raise_exceptions /\ gen = "raised") =>
          /\ pc = "failed"
          /\ pc' = "failed"
          /\ produced' = produced
          /\ calls' = calls
          /\ yielded' = yielded]_vars

C11_Witness ==
    /\ re_raise_exceptions
    /\ gen = "raised"
    /\ pc = "failed"
    /\ yielded # <<>>
    /\ results # <<>>
    /\ yieldIdx = 0

C13_StorageFaultHandling ==
    \A c \in 1..Len(calls) :
        /\ (calls[c].fault \in Faults) = (calls[c].outcome # "ok")
        /\ calls[c].outcome = "raised" =>
              /\ re_raise_exceptions
              /\ c = Len(calls)
              /\ pc = "failed"
              /\ \A k \in Range(calls[c].keys) : TimesYielded(k) = 0
        /\ calls[c].outcome = "swallowed" =>
              /\ ~re_raise_exceptions
              /\ pc # "failed"
              /\ \A k \in Range(calls[c].keys) :
                    /\ TimesWritten(k) = 1
                    /\ TimesYielded(k) <= 1
                    /\ (pc \in {"pull", "done"} => TimesYielded(k) = 1)
                    /\ (pc \in {"pull", "checkpoint"} =>
                          k \notin Range(Keys(results)))

C13_Witness ==
    /\ pc = "done"
    /\ \E c, d \in 1..Len(calls) :
         /\ c < d
         /\ calls[c].outcome = "swallowed"
         /\ calls[c].fault = "OtherError"
         /\ Len(calls[c].keys) >= 2
         /\ calls[d].outcome = "swallowed"
         /\ calls[d].fault = "IntegrityError"

\* batch_size=999 is the default of @task and of _bulk_insert.
DefaultBatchSize == 999
ExampleChunks == Chunked([i \in 1..1500 |-> i], DefaultBatchSize)

\* C14: a call passed n >= 1 records with batch size b splits them into
\* ceil(n / b) chunks of 1 to b records which, put end to end, are the
\* records in input order; 1500 records with b = 999 make 2 chunks.
C14_ChunkedInserts ==
    /\ \A c \in 1..Len(calls) :
         calls[c].keys # <<>> =>
            /\ Len(calls[c].chunks) * batch_size >= Len(calls[c].keys)
            /\ (Len(calls[c].chunks) - 1) * batch_size < Len(calls[c].keys)
            /\ \A i \in 1..Len(calls[c].chunks) :
                  /\ Len(calls[c].chunks[i]) >= 1
                  /\ Len(calls[c].chunks[i]) <= batch_size
            /\ Concat(calls[c].chunks) = calls[c].keys
    /\ Len(ExampleChunks) = 2
    /\ Len(ExampleChunks[1]) = DefaultBatchSize
    /\ Concat(ExampleChunks) = [i \in 1..1500 |-> i]

C14_Witness ==
    /\ batch_size = 2
    /\ \E c \in 1..Len(calls) :
         /\ calls[c].outcome = "ok"
         /\ Len(calls[c].keys) = 3
         /\ Len(calls[c].chunks) = 2
         /\ Len(calls[c].chunks[2]) = 1


\* The states of an invocation.
Phase(at) ==
    IF at = "pull" THEN "RUNNING"
    ELSE IF at \in {"checkpoint", "yield_checkpoint"} THEN "CHECKPOINTING"
    ELSE IF at \in {"drain", "yield_drain"} THEN "DRAINING"
    ELSE IF at = "done" THEN "DONE"
    ELSE "FAILED"

\* C22: an invocation starts RUNNING and moves RUNNING -> (CHECKPOINTING
\* <-> RUNNING)* -> DRAINING -> DONE, or to FAILED: CHECKPOINTING is
\* entered only from RUNNING by a pull that returned a record, DONE only
\* from DRAINING, and nothing is pulled, written or yielded once the
\* invocation is DONE or FAILED.
C22_StateMachine ==
    /\ Phase(pc) = "RUNNING"
    /\ [][/\ Phase(pc) = "RUNNING" =>
               Phase(pc') \in {"RUNNING", "CHECKPOINTING", "DRAINING",
                               "FAILED"}
          /\ Phase(pc) = "CHECKPOINTING" =>
               Phase(pc') \in {"CHECKPOINTING", "RUNNING", "FAILED"}
          /\ Phase(pc) = "DRAINING" =>
               Phase(pc') \in {"DRAINING", "DONE", "FAILED"}
          /\ (Phase(pc') = "CHECKPOINTING" /\ Phase(pc) # "CHECKPOINTING") =>
               (Phase(pc) = "RUNNING" /\ produced' = produced + 1)
          /\ (Phase(pc') = "DONE" /\ Phase(pc) # "DONE") =>
               Phase(pc) = "DRAINING"
          /\ Phase(pc) \in {"DONE", "FAILED"} =>
               (pc' = pc /\ produced' = produced /\ calls' = calls
                         /\ yielded' = yielded)]_vars

C22_Witness ==
    /\ pc = "done"
    /\ gen = "finished"
    /\ Len(calls) >= 3
    /\ calls[1].keys # <<>>
    /\ calls[2].keys # <<>>

TableKeys == {row.key : row \in table}

\* C35: on a backend other than SQLite, a _bulk_insert call that ends
\* with a fault leaves the rows of the store as they were before the call,
\* whichever chunk the fault came in, and a call that ends without fault
\* has every record of its list among the rows.
C35_AllOrNothing ==
    [][(Len(calls') = Len(calls) + 1 /\ backend # "sqlite")
       => IF calls'[Len(calls')].outcome = "ok"
          THEN Range(calls'[Len(calls')].keys)
                  \subseteq {row.key : row \in table'}
          ELSE table' = table]_vars

C35_Witness ==
    /\ backend # "sqlite"
    /\ calls # <<>>
    /\ calls[Len(calls)].outcome = "swallowed"
    /\ Len(calls[Len(calls)].chunks) >= 2
    /\ pc \in {"yield_checkpoint", "yield_drain"}
    /\ results[1].dirty
    /\ results[1].id # NULL
    /\ results[Len(results)].id = NULL
    /\ results[1].key \notin TableKeys

\* C23: when an invocation has failed, the records of every _bulk_insert
\* call that returned before are rows of the store, and a record that is
\* not a row of the store is in the pending batch.
C23_EarlierCheckpointsPersist ==
    pc = "failed" =>
        /\ \A c \in 1..Len(calls) :
              (c < Len(calls) \/ calls[c].outcome # "raised") =>
                 /\ calls[c].outcome = "ok"
                 /\ Range(calls[c].keys) \subseteq TableKeys
        /\ \A k \in 1..produced :
              k \notin TableKeys => k \in Range(Keys(results))

C23_Witness ==
    /\ pc = "failed"
    /\ Len(calls) >= 2
    /\ calls[1].keys # <<>>
    /\ calls[Len(calls)].outcome = "raised"
    /\ \E k \in Range(Keys(results)) : k \notin TableKeys

\* C28 as stated: every _bulk_insert call the runner makes is passed a
\* non-empty list.
C28_NeverCalledEmpty ==
    \A c \in 1..Len(calls) : calls[c].keys # <<>>

\* C28 as amended: every _bulk_insert call made at a checkpoint is passed
\* a non-empty list; the call of the final drain is passed the empty list
\* when nothing is pending, and such a call ends without fault and leaves
\* the pending list, the table and the identifier counter as they were.
C28_EmptyOnlyAtDrain ==
    /\ [](\A c \in 1..Len(calls) :
            calls[c].keys = <<>> =>
               /\ c = Len(calls)
               /\ pc \in {"yield_drain", "done"}
               /\ calls[c].outcome = "ok")
    /\ [][(Len(calls') = Len(calls) + 1
            /\ calls'[Len(calls')].keys = <<>>) =>
              (pc = "drain" /\ UNCHANGED <<results, table, tableExists,
                                           nextId>>)]_vars

C28_Witness ==
    /\ pc = "done"
    /\ produced >= 2
    /\ Len(calls) = 2
    /\ calls[2].keys = <<>>
    /\ Len(yielded) = produced


\* =========================================================================
\* astra/database/utils.py: get_or_create_parameter_pk, called concurrently
\* (specification SpecParameter)
\* =========================================================================

\* The task runner is not in use (the specifications of the store).
RunnerIdle ==
    /\ pc = "done"
    /\ re_raise_exceptions = TRUE
    /\ batch_size = 1
    /\ backend = "postgresql"
    /\ gen = "finished"
    /\ produced = 0
    /\ results = <<>>
    /\ yieldIdx = 0
    /\ yielded = <<>>
    /\ calls = <<>>
    /\ table = {}
    /\ tableExists = FALSE
    /\ nextId = 1

\* How many calls of get_or_create_parameter_pk are made in all.
MaxParameterCalls == 3

ParameterNames == {"release", "mjd"}
ParameterValues == {StrVal("sdss5"), IntVal(59000), StrVal("59000")}

InFlight == {p \in Procs : proc[p] # Idle}

RequeryMisses(tbl, name, sval) == NULL

\* The query of the except clause: the same filter_by(**kwds) again.
RequeryParameter(tbl, name, sval) == LookupParameter(tbl, name, sval)

\* What get_or_create_parameter_pk returns, or that it raised.
ParameterReturn(p, pk, inserted) ==
    [op       |-> "get_or_create_parameter_pk",
     proc     |-> p,
     name     |-> proc[p].name,
     value    |-> proc[p].value,
     raised   |-> FALSE,
     pk       |-> pk,
     created  |-> proc[p].create,
     inserted |-> inserted,
     conflict |-> proc[p].pc = "requery"]

ParameterRaise(p) ==
    [ParameterReturn(p, NULL, FALSE) EXCEPT !.raised = TRUE]

\* The call and its first query: instance = q.one_or_none();
\* create = (instance is None).  A hit returns (instance.pk, False).
ParameterLookup(p, name, val) ==
    /\ proc[p] = Idle
    /\ Len(history) + Cardinality(InFlight) < MaxParameterCalls
    /\ LET pk == LookupParameter(parameter, name, Serialize(val))
           me == [op |-> "get_or_create_parameter_pk", pc |-> "insert",
                  name |-> name, value |-> val, create |-> pk = NULL]
       IN  IF pk = NULL
           THEN /\ proc' = [proc EXCEPT ![p] = me]
                /\ UNCHANGED history
           ELSE /\ history' = Append(history,
                       [op |-> "get_or_create_parameter_pk", proc |-> p,
                        name |-> name, value |-> val, raised |-> FALSE,
                        pk |-> pk, created |-> FALSE, inserted |-> FALSE,
                        conflict |-> FALSE])
                /\ UNCHANGED proc
    /\ UNCHANGED <<parameter, task_instance, task_instance_parameter,
                   output_interface, output_record, rvars, fvars>>

\* with session.begin(subtransactions=True): session.add(instance).
\* The insert commits, or the store raises IntegrityError.
ParameterInsert(p) ==
    /\ proc[p].op = "get_or_create_parameter_pk"
    /\ proc[p].pc = "insert"
    /\ LET sval == Serialize(proc[p].value)
       IN  IF UniqueViolation(parameter, proc[p].name, sval)
           THEN /\ proc' = [proc EXCEPT ![p].pc = "requery"]
                /\ UNCHANGED <<parameter, history>>
           ELSE /\ parameter' = InsertParameter(parameter, proc[p].name, sval)
                /\ history' = Append(history,
                                  ParameterReturn(p, NextPk(parameter), TRUE))
                /\ proc' = [proc EXCEPT ![p] = Idle]
    /\ UNCHANGED <<task_instance, task_instance_parameter, output_interface,
                   output_record, rvars, fvars>>

\* except sqlalchemy.exc.IntegrityError: query again; raise if still None.
ParameterRequery(p) ==
    /\ proc[p].op = "get_or_create_parameter_pk"
    /\ proc[p].pc = "requery"
    /\ LET pk == RequeryParameter(parameter, proc[p].name,
                                  Serialize(proc[p].value))
       IN  history' = Append(history,
               IF pk = NULL THEN ParameterRaise(p)
               ELSE ParameterReturn(p, pk, FALSE))
    /\ proc' = [proc EXCEPT ![p] = Idle]
    /\ UNCHANGED <<parameter, task_instance, task_instance_parameter,
                   output_interface, output_record, rvars, fvars>>

ParameterInit == RunnerIdle /\ DbInit /\ NoFiles

ParameterNext ==
    \E p \in Procs :
        \/ \E name \in ParameterNames, val \in ParameterValues :
              ParameterLookup(p, name, val)
        \/ ParameterInsert(p)
        \/ ParameterRequery(p)

SpecParameter == ParameterInit /\ [][ParameterNext]_vars

\* The rows stored for a pair.
RowsFor(name, sval) == {r \in parameter : r.name = name /\ r.value = sval}

C21_CreatedMeansInserted ==
    \A i \in 1..Len(history) :
        ~history[i].raised => history[i].created = history[i].inserted

\* The calls of get_or_create_parameter_pk that returned a pk.
Resolved == {i \in 1..Len(history) : ~history[i].raised}

\* C36 as stated: two calls that returned the same Parameter pk were made
\* with the same name and the same value.
C36_SameRowOnlyForSameValue ==
    \A i, j \in Resolved :
        history[i].pk = history[j].pk
        => /\ history[i].name = history[j].name
           /\ history[i].value = history[j].value

\* C36 amended: two calls return the same Parameter pk exactly when their
\* names are equal and their values have the same serialized text.  Two
\* strings, or two integers, with the same text are the same value; a
\* string is stored as it is, so an integer and the string of its JSON
\* text share a row.
C36_SameRowIffSameText ==
    \A i, j \in Resolved :
        /\ history[i].pk = history[j].pk
           <=> /\ history[i].name = history[j].name
               /\ Serialize(history[i].value) = Serialize(history[j].value)
        /\ (/\ history[i].pk = history[j].pk
            /\ history[i].value.type = history[j].value.type)
           => history[i].value = history[j].value
        /\ \E r \in parameter :
              /\ r.pk = history[i].pk
              /\ r.name = history[i].name
              /\ r.value = IF history[i].value.type = "str"
                           THEN history[i].value.v
                           ELSE JsonDumpsInt(history[i].value.v)

C36_Witness ==
    \E i, j, k \in Resolved :
        /\ history[i].name = history[j].name
        /\ history[i].value = IntVal(59000)
        /\ history[j].value = StrVal("59000")
        /\ history[i].pk = history[j].pk
        /\ history[k].name = history[i].name
        /\ history[k].value = StrVal("sdss5")
        /\ history[k].pk # history[i].pk


\* =========================================================================
\* astra/database/utils.py: the task-instance registry, one caller
\* (specification SpecRegistry)
\* =========================================================================

\* How many registry calls are made in all.
MaxCalls == 2

\* The one process that calls the registry.
RegistryProcs == {p \in Procs : \A q \in Procs : p <= q}

DagIds == {"d1"}
TaskIds == {"t1", "t2"}
RunIds == {"r1", "r2"}
\* run_id = None
NoRun == "None"

\* A parameter dictionary is the sequence of its items, in insertion order.
Item(name, val) == [name |-> name, value |-> val]
ParameterMaps ==
    {<<>>,
     <<Item("release", StrVal("sdss5"))>>,
     <<Item("release", StrVal("dr17"))>>,
     <<Item("mjd", IntVal(59000))>>,
     <<Item("release", StrVal("sdss5")), Item("mjd", IntVal(59000))>>,
     <<Item("mjd", IntVal(59000)), Item("release", StrVal("sdss5"))>>}

\* The (name, serialized value) pairs a dictionary asks for.
SerializedPairs(params) ==
    {<<params[i].name, Serialize(params[i].value)>> : i \in 1..Len(params)}

\* ---- get_task_instance

EveryParameterPk(params) == {r.pk : r \in parameter}

\* q_p: the Parameter rows matching any requested pair.  With no pair the
\* or_() is empty and the filter selects every row.
RequestedParameterPks(params) ==
    IF params = <<>> THEN {r.pk : r \in parameter}
    ELSE {r.pk : r \in {x \in parameter :
                          <<x.name, x.value>> \in SerializedPairs(params)}}

\* The distinct parameter pks linked to a task instance, among `among`.
LinkedPks(ti_pk, among) ==
    {l.parameter_pk : l \in {x \in task_instance_parameter :
                               x.ti_pk = ti_pk /\ x.parameter_pk \in among}}

AllPks == {r.pk : r \in parameter}

\* sq: the instances having all the requested parameters (a group exists
\* only for an instance with at least one matching link).
HavingAll(qp) ==
    {ti_pk \in {l.ti_pk : l \in {x \in task_instance_parameter :
                                   x.parameter_pk \in qp}} :
        Cardinality(LinkedPks(ti_pk, qp)) = Cardinality(qp)}

\* The exact-match subquery: of those, the instances whose number of
\* distinct linked parameters is len(parameters).
HavingExactly(sq, n) ==
    {ti_pk \in sq : Cardinality(LinkedPks(ti_pk, AllPks)) = n}

Row(pk) == [kind |-> "row", pk |-> pk]
None == [kind |-> "none", pk |-> NULL]
MultipleResultsFound == [kind |-> "error", pk |-> NULL]

\* Query.one_or_none()
OneOrNone(pks) ==
    IF pks = {} THEN None
    ELSE IF Cardinality(pks) = 1 THEN Row(CHOOSE x \in pks : TRUE)
    ELSE MultipleResultsFound

GetTaskInstance(dag_id, task_id, run_id, params) ==
    LET qp == RequestedParameterPks(params)
        sq == HavingExactly(HavingAll(qp), Len(params))
        q  == {ti \in task_instance :
                 /\ ti.pk \in sq
                 /\ ti.dag_id = dag_id
                 /\ ti.task_id = task_id
                 /\ (run_id # NoRun => ti.run_id = run_id)}
    IN  IF Cardinality(qp) < Len(params) THEN None
        ELSE OneOrNone({ti.pk : ti \in q})

\* ---- create_task_instance

\* get_or_create_parameter_pk with no other caller at work: the table it
\* leaves and the pk it returns.
GetOrCreateParameter(tbl, name, val) ==
    LET pk == LookupParameter(tbl, name, Serialize(val))
    IN  IF pk # NULL THEN [tbl |-> tbl, pk |-> pk]
        ELSE [tbl |-> InsertParameter(tbl, name, Serialize(val)),
              pk  |-> NextPk(tbl)]

\* The generator parameter_pks, consumed by the linking loop: the parameter
\* table after resolving every item in order, and the pks in that order.
RECURSIVE ResolveParameters(_, _)
ResolveParameters(tbl, params) ==
    IF params = <<>> THEN [tbl |-> tbl, pks |-> <<>>]
    ELSE LET first == GetOrCreateParameter(tbl, Head(params).name,
                                           Head(params).value)
             rest  == ResolveParameters(first.tbl, Tail(params))
         IN  [tbl |-> rest.tbl, pks |-> <<first.pk>> \o rest.pks]

LinkFirstOnly(links, ti_pk, pks) ==
    IF pks = <<>> THEN links
    ELSE links \cup {[pk |-> NextPk(links), ti_pk |-> ti_pk,
                      parameter_pk |-> Head(pks)]}

\* session.add(astradb.TaskInstanceParameter(ti_pk=..., parameter_pk=...))
\* for every resolved pk.
RECURSIVE AddLinks(_, _, _)
AddLinks(links, ti_pk, pks) ==
    IF pks = <<>> THEN links
    ELSE AddLinks(links \cup {[pk |-> NextPk(links), ti_pk |-> ti_pk,
                               parameter_pk |-> Head(pks)]},
                  ti_pk, Tail(pks))

RegistryBudget == Len(history) + Cardinality(InFlight) < MaxCalls

\* ti = astradb.TaskInstance(...); with session.begin(): session.add(ti)
InsertInstance(p, via, dag_id, task_id, run_id, params) ==
    /\ proc[p] = Idle
    /\ RegistryBudget
    /\ task_instance' = task_instance \cup
           {[pk |-> NextPk(task_instance), dag_id |-> dag_id,
             task_id |-> task_id, run_id |-> run_id, output_pk |-> NULL]}
    /\ proc' = [proc EXCEPT ![p] =
           [op |-> "create_task_instance", pc |-> "link", via |-> via,
            dag_id |-> dag_id, task_id |-> task_id, run_id |-> run_id,
            parameters |-> params, ti_pk |-> NextPk(task_instance)]]
    /\ UNCHANGED <<parameter, task_instance_parameter, output_interface,
                   output_record, history, rvars, fvars>>

\* create_task_instance called directly.
CreateTaskInstance(p, dag_id, task_id, run_id, params) ==
    InsertInstance(p, "create_task_instance", dag_id, task_id, run_id, params)

\* The second transaction of create_task_instance: the parameters are
\* resolved (the generator runs now) and linked, and ti is returned.
LinkParameters(p) ==
    /\ proc[p].op = "create_task_instance"
    /\ proc[p].pc = "link"
    /\ LET r == ResolveParameters(parameter, proc[p].parameters)
       IN  /\ parameter' = r.tbl
           /\ task_instance_parameter' =
                 AddLinks(task_instance_parameter, proc[p].ti_pk, r.pks)
    /\ history' = Append(history,
           [op |-> proc[p].via, dag_id |-> proc[p].dag_id,
            task_id |-> proc[p].task_id, run_id |-> proc[p].run_id,
            parameters |-> proc[p].parameters,
            kind |-> "row", pk |-> proc[p].ti_pk])
    /\ proc' = [proc EXCEPT ![p] = Idle]
    /\ UNCHANGED <<task_instance, output_interface, output_record, rvars,
                   fvars>>

\* ---- get_or_create_task_instance

\* `instance = None` (the lookup is commented out).
ExistingInstance(dag_id, task_id, run_id, params) == None

GetOrCreateTaskInstance(p, dag_id, task_id, run_id, params) ==
    LET instance == ExistingInstance(dag_id, task_id, run_id, params)
    IN  IF instance = None
        THEN InsertInstance(p, "get_or_create_task_instance",
                            dag_id, task_id, run_id, params)
        ELSE /\ proc[p] = Idle
             /\ RegistryBudget
             /\ history' = Append(history,
                    [op |-> "get_or_create_task_instance",
                     dag_id |-> dag_id, task_id |-> task_id,
                     run_id |-> run_id, parameters |-> params,
                     kind |-> instance.kind, pk |-> instance.pk])
             /\ UNCHANGED <<parameter, task_instance,
                            task_instance_parameter, output_interface,
                            output_record, proc, rvars, fvars>>

\* A call of get_task_instance.
LookupTaskInstance(p, dag_id, task_id, run_id, params) ==
    /\ proc[p] = Idle
    /\ RegistryBudget
    /\ LET r == GetTaskInstance(dag_id, task_id, run_id, params)
       IN  history' = Append(history,
               [op |-> "get_task_instance", dag_id |-> dag_id,
                task_id |-> task_id, run_id |-> run_id,
                parameters |-> params, kind |-> r.kind, pk |-> r.pk])
    /\ UNCHANGED <<parameter, task_instance, task_instance_parameter,
                   output_interface, output_record, proc, rvars, fvars>>

RegistryInit == RunnerIdle /\ DbInit /\ NoFiles

RegistryNext ==
    \E p \in RegistryProcs :
        \/ \E d \in DagIds, t \in TaskIds, r \in RunIds, ps \in ParameterMaps :
              \/ CreateTaskInstance(p, d, t, r, ps)
              \/ GetOrCreateTaskInstance(p, d, t, r, ps)
        \/ LinkParameters(p)
        \/ \E d \in DagIds, t \in TaskIds, r \in RunIds \cup {NoRun},
              ps \in ParameterMaps :
              LookupTaskInstance(p, d, t, r, ps)

SpecRegistry == RegistryInit /\ [][RegistryNext]_vars


\* The (name, value) pairs of the Parameter rows linked to an instance.
LinkedPairs(ti_pk) ==
    {<<r.name, r.value>> :
        r \in {x \in parameter : x.pk \in LinkedPks(ti_pk, AllPks)}}

\* The instances whose identity is exactly the given one.
ExactMatches(dag_id, task_id, run_id, params) ==
    {ti \in task_instance :
        /\ ti.dag_id = dag_id
        /\ ti.task_id = task_id
        /\ (run_id # NoRun => ti.run_id = run_id)
        /\ LinkedPairs(ti.pk) = SerializedPairs(params)}

GetOrCreateCalls ==
    {i \in 1..Len(history) : history[i].op = "get_or_create_task_instance"}

SameRequest(a, b) ==
    /\ a.dag_id = b.dag_id
    /\ a.task_id = b.task_id
    /\ a.run_id = b.run_id
    /\ Range(a.parameters) = Range(b.parameters)

\* C4: two calls of get_or_create_task_instance with the same dag_id,
\* task_id, run_id and the same parameter set (in any key order) return
\* the same primary key and leave exactly one TaskInstance row of that
\* identity; two calls whose parameter sets differ return distinct ones.
C4_GetOrCreateIsIdempotent ==
    \A i, j \in GetOrCreateCalls :
        i < j =>
            IF SameRequest(history[i], history[j])
            THEN /\ history[i].pk = history[j].pk
                 /\ Cardinality(ExactMatches(history[i].dag_id,
                        history[i].task_id, history[i].run_id,
                        history[i].parameters)) = 1
            ELSE (Range(history[i].parameters) # Range(history[j].parameters)
                    => history[i].pk # history[j].pk)

\* C8: between calls, for every request, get_task_instance returns an instance only if
\* its dag_id, task_id and run_id match and the Parameter rows linked to
\* it are exactly the requested (name, serialized value) pairs, and it
\* returns such an instance whenever exactly one exists.
C8_LookupIsExact ==
    InFlight = {} =>
    \A d \in DagIds, t \in TaskIds, r \in RunIds \cup {NoRun},
       ps \in ParameterMaps :
        LET found == GetTaskInstance(d, t, r, ps)
            exact == ExactMatches(d, t, r, ps)
        IN  /\ (found.kind = "row" => found.pk \in {ti.pk : ti \in exact})
            /\ (Cardinality(exact) = 1 => found.kind = "row")

\* C17: between calls, for every request that more than one TaskInstance
\* matches (same dag_id and task_id, the run_id if one is given, and exactly
\* the requested parameters), get_task_instance ends in an error and
\* returns none of them.
C17_AmbiguousLookupRaises ==
    InFlight = {} =>
    \A d \in DagIds, t \in TaskIds, r \in RunIds \cup {NoRun},
       ps \in ParameterMaps :
        Cardinality(ExactMatches(d, t, r, ps)) > 1 =>
            GetTaskInstance(d, t, r, ps).kind = "error"

\* The requested (name, serialized value) pairs that have no Parameter row.
MissingPairs(params) ==
    {pair \in SerializedPairs(params) :
        ~\E r \in parameter : <<r.name, r.value>> = pair}

\* C27: a call of get_task_instance with at least one requested (name,
\* serialized value) pair that has no Parameter row returns none, and no
\* call of get_task_instance changes the Parameter, TaskInstance or
\* TaskInstanceParameter rows.
C27_LookupMissesAndCreatesNothing ==
    [][(/\ Len(history') = Len(history) + 1
        /\ history'[Len(history')].op = "get_task_instance")
       => /\ (MissingPairs(history'[Len(history')].parameters) # {}
                 => history'[Len(history')].kind = "none")
          /\ UNCHANGED <<parameter, task_instance,
                         task_instance_parameter>>]_vars

C27_Witness ==
    \E i \in 1..Len(history) :
        /\ history[i].op = "get_task_instance"
        /\ history[i].kind = "none"
        /\ task_instance # {}
        /\ MissingPairs(history[i].parameters) # {}
        /\ MissingPairs(history[i].parameters)
              # SerializedPairs(history[i].parameters)

\* The calls of create_task_instance that returned, direct or through
\* get_or_create_task_instance.
CreateReturns ==
    {i \in 1..Len(history) :
        /\ history[i].op \in {"create_task_instance",
                              "get_or_create_task_instance"}
        /\ history[i].kind = "row"}

JoinRows(ti_pk) == {l \in task_instance_parameter : l.ti_pk = ti_pk}

\* C30: when create_task_instance has returned an instance, the Parameter
\* rows linked to it are exactly the (name, serialized value) pairs of the
\* given parameters, there is one join row per pair, and the instance's
\* output_pk is null.
C30_CreatedInstanceHasExactlyItsParameters ==
    \A i \in CreateReturns :
        /\ LinkedPairs(history[i].pk) = SerializedPairs(history[i].parameters)
        /\ Cardinality(JoinRows(history[i].pk)) = Len(history[i].parameters)
        /\ Cardinality(JoinRows(history[i].pk))
              = Cardinality(SerializedPairs(history[i].parameters))
        /\ \E ti \in task_instance :
              /\ ti.pk = history[i].pk
              /\ ti.dag_id = history[i].dag_id
              /\ ti.task_id = history[i].task_id
              /\ ti.run_id = history[i].run_id
              /\ ti.output_pk = NULL

C30_Witness ==
    \E i, j \in CreateReturns :
        /\ history[i].op = "create_task_instance"
        /\ history[i].pk # history[j].pk
        /\ Len(history[i].parameters) = 2
        /\ LinkedPks(history[i].pk, AllPks)
              \cap LinkedPks(history[j].pk, AllPks) # {}

\* C26: whenever the TaskInstance row of a call of create_task_instance is
\* committed, every parameter of the request is already resolved: each
\* requested (name, serialized value) pair has its Parameter row.
C26_ResolvedBeforeInsert ==
    \A p \in Procs :
        (/\ proc[p] # Idle
         /\ proc[p].op = "create_task_instance"
         /\ \E ti \in task_instance : ti.pk = proc[p].ti_pk)
        => MissingPairs(proc[p].parameters) = {}

\* C31: between calls, for every returned call of create_task_instance
\* whose identity no other instance has, get_task_instance with the same
\* dag_id, task_id, run_id and parameters returns that instance, and with
\* any other parameter map it does not return it.
C31_CreateThenLookup ==
    InFlight = {} =>
    \A i \in CreateReturns :
        LET e == history[i]
        IN  Cardinality(ExactMatches(e.dag_id, e.task_id, e.run_id,
                                     e.parameters)) = 1
            => /\ GetTaskInstance(e.dag_id, e.task_id, e.run_id,
                                  e.parameters) = Row(e.pk)
               /\ \A ps \in ParameterMaps :
                     Range(ps) # Range(e.parameters)
                     => GetTaskInstance(e.dag_id, e.task_id, e.run_id,
                                        ps) # Row(e.pk)

\* The instances of any run with the given dag_id and task_id that are
\* linked to exactly the requested parameters.
MatchesOfAnyRun(dag_id, task_id, params) ==
    {ti \in task_instance :
        /\ ti.dag_id = dag_id
        /\ ti.task_id = task_id
        /\ LinkedPairs(ti.pk) = SerializedPairs(params)}

\* C37: between calls, get_task_instance with run_id None returns only an
\* instance of the given dag_id and task_id linked to exactly the requested
\* parameters, whatever its run, and returns it whenever exactly one such
\* instance exists across all runs.
C37_NoRunMatchesAnyRun ==
    InFlight = {} =>
    \A d \in DagIds, t \in TaskIds, ps \in ParameterMaps :
        LET found == GetTaskInstance(d, t, NoRun, ps)
            any   == MatchesOfAnyRun(d, t, ps)
        IN  /\ found.kind = "row" => found.pk \in {ti.pk : ti \in any}
            /\ Cardinality(any) = 1
                  => found = Row((CHOOSE ti \in any : TRUE).pk)


\* ---- create_task_instance, its linking transaction step by step, with
\* ---- crashes (specification SpecCrash)

FlushedDuringLinking(stored, pending) == pending

\* `with session.begin():` around the linking loop: until the block is
\* left, the store holds what it held before; the rows added are pending.
StoredDuringLinking(stored, pending) == stored

\* The pending state of the linking transaction of process p: the Parameter
\* and TaskInstanceParameter rows as the session sees them, and how many
\* items of the request are linked.
Session(p) ==
    IF proc[p].pc = "link"
    THEN [tbl |-> parameter, links |-> task_instance_parameter, k |-> 0]
    ELSE proc[p].session

Linking(p) ==
    /\ proc[p] # Idle
    /\ proc[p].op = "create_task_instance"
    /\ proc[p].pc \in {"link", "adding"}

\* One turn of `for parameter_pk in parameter_pks: session.add(...)`: the
\* generator resolves the next item, and its link is added to the session.
AddLink(p) ==
    /\ Linking(p)
    /\ Session(p).k < Len(proc[p].parameters)
    /\ LET s    == Session(p)
           item == proc[p].parameters[s.k + 1]
           g    == GetOrCreateParameter(s.tbl, item.name, item.value)
           s2   == [tbl |-> g.tbl,
                    links |-> AddLinks(s.links, proc[p].ti_pk, <<g.pk>>),
                    k |-> s.k + 1]
       IN  /\ parameter' = StoredDuringLinking(parameter, s2.tbl)
           /\ task_instance_parameter' =
                 StoredDuringLinking(task_instance_parameter, s2.links)
           /\ proc' = [proc EXCEPT ![p] =
                 [op |-> "create_task_instance", pc |-> "adding",
                  via |-> proc[p].via, dag_id |-> proc[p].dag_id,
                  task_id |-> proc[p].task_id, run_id |-> proc[p].run_id,
                  parameters |-> proc[p].parameters,
                  ti_pk |-> proc[p].ti_pk, session |-> s2]]
    /\ UNCHANGED <<task_instance, output_interface, output_record, history,
                   rvars, fvars>>

CreateEntry(p, kind) ==
    [op |-> proc[p].via, dag_id |-> proc[p].dag_id,
     task_id |-> proc[p].task_id, run_id |-> proc[p].run_id,
     parameters |-> proc[p].parameters, kind |-> kind,
     pk |-> proc[p].ti_pk]

\* The loop is over: the block is left, the transaction commits, and ti is
\* returned.
CommitLinks(p) ==
    /\ Linking(p)
    /\ Session(p).k = Len(proc[p].parameters)
    /\ parameter' = Session(p).tbl
    /\ task_instance_parameter' = Session(p).links
    /\ history' = Append(history, CreateEntry(p, "row"))
    /\ proc' = [proc EXCEPT ![p] = Idle]
    /\ UNCHANGED <<task_instance, output_interface, output_record, rvars,
                   fvars>>

\* The process dies after the TaskInstance row was committed, before or
\* inside the linking transaction: what is pending is lost.  The log keeps
\* the request of the call that died.
CreateCrash(p) ==
    /\ Linking(p)
    /\ history' = Append(history, CreateEntry(p, "crash"))
    /\ proc' = [proc EXCEPT ![p] = Idle]
    /\ UNCHANGED <<parameter, task_instance, task_instance_parameter,
                   output_interface, output_record, rvars, fvars>>

CrashInit == RegistryInit

\* The runs of the calls; the run plays no part in linking.
CrashRunIds == {"r1"}

CrashNext ==
    \E p \in RegistryProcs :
        \/ \E d \in DagIds, t \in TaskIds, r \in CrashRunIds,
              ps \in ParameterMaps : CreateTaskInstance(p, d, t, r, ps)
        \/ AddLink(p)
        \/ CommitLinks(p)
        \/ CreateCrash(p)

SpecCrash == CrashInit /\ [][CrashNext]_vars

\* C32: in every state, also while a call of create_task_instance is in
\* progress and after a call has crashed, every TaskInstance has either no
\* join row, or it was returned by its call and is linked to exactly the
\* requested parameters, one join row per parameter.
C32_NoLinksOrAllLinks ==
    \A ti \in task_instance :
        \/ JoinRows(ti.pk) = {}
        \/ \E i \in CreateReturns :
              /\ history[i].pk = ti.pk
              /\ LinkedPairs(ti.pk) = SerializedPairs(history[i].parameters)
              /\ Cardinality(JoinRows(ti.pk)) = Len(history[i].parameters)

C32_Witness ==
    /\ \E i \in 1..Len(history) :
          /\ history[i].kind = "crash"
          /\ Len(history[i].parameters) = 2
          /\ JoinRows(history[i].pk) = {}
    /\ \E p \in Procs :
          /\ Linking(p)
          /\ proc[p].pc = "adding"
          /\ Session(p).k = 1
          /\ Len(proc[p].parameters) = 2
          /\ JoinRows(proc[p].ti_pk) = {}
          /\ Session(p).links # task_instance_parameter


\* =========================================================================
\* astra/database/utils.py: create_task_output, called concurrently, with
\* crashes between its transactions (specification SpecOutput)
\* =========================================================================

\* How many calls of create_task_output are made in all.
MaxOutputCalls == 3

\* Two task instances without parameters, as create_task_instance leaves
\* them, and no output yet.
OutputInit ==
    /\ RunnerIdle
    /\ NoFiles
    /\ parameter = {}
    /\ task_instance =
          {[pk |-> 1, dag_id |-> "d1", task_id |-> "t1", run_id |-> "r1",
            output_pk |-> NULL],
           [pk |-> 2, dag_id |-> "d1", task_id |-> "t1", run_id |-> "r2",
            output_pk |-> NULL]}
    /\ task_instance_parameter = {}
    /\ output_interface = {}
    /\ output_record = {}
    /\ proc = [p \in Procs |-> Idle]
    /\ history = <<>>

\* task_instance_or_pk: a TaskInstance object, or a primary key, which may
\* match no row.
OutputTargets ==
    {[instance |-> TRUE, pk |-> 1], [instance |-> FALSE, pk |-> 1],
     [instance |-> FALSE, pk |-> 2], [instance |-> FALSE, pk |-> 3]}

WriteOrderLinkFirst == <<"interface", "link", "record">>

\* The three transactions of create_task_output, in the order of the code.
WriteOrder == <<"interface", "record", "link">>

\* The raise for a primary key without row: its message is an f-string
\* over task_instance_pk, a name the function does not define, so
\* building the message raises NameError and the ValueError is never made.
NotFoundError == "NameError"

LinkOnlyFirst(ti, out_pk) ==
    IF ti.output_pk = NULL THEN [ti EXCEPT !.output_pk = out_pk] ELSE ti

\* task_instance.output_pk = output_interface.pk
LinkedTo(ti, out_pk) == [ti EXCEPT !.output_pk = out_pk]

OutputEntry(p, how) ==
    [op |-> "create_task_output", proc |-> p, ti_pk |-> proc[p].ti_pk,
     output_pk |-> proc[p].output_pk, ended |-> how, step |-> proc[p].step]

\* The lookup of the task instance, when a primary key is given.
OutputCall(p, target) ==
    /\ proc[p] = Idle
    /\ Len(history) + Cardinality(InFlight) < MaxOutputCalls
    /\ IF ~target.instance /\ ~\E ti \in task_instance : ti.pk = target.pk
       THEN /\ history' = Append(history,
                   [op |-> "create_task_output", proc |-> p,
                    ti_pk |-> target.pk, output_pk |-> NULL,
                    ended |-> NotFoundError, step |-> 0])
            /\ UNCHANGED proc
       ELSE /\ proc' = [proc EXCEPT ![p] =
                   [op |-> "create_task_output", step |-> 1,
                    ti_pk |-> target.pk, output_pk |-> NULL]]
            /\ UNCHANGED history
    /\ UNCHANGED <<parameter, task_instance, task_instance_parameter,
                   output_interface, output_record, rvars, fvars>>

AtWrite(p, what) ==
    /\ proc[p].op = "create_task_output"
    /\ proc[p].step <= Len(WriteOrder)
    /\ WriteOrder[proc[p].step] = what

\* After a transaction: on to the next one, or return output_result.
Advance(p, out_pk) ==
    IF proc[p].step = Len(WriteOrder)
    THEN /\ history' = Append(history,
                [OutputEntry(p, "returned") EXCEPT !.output_pk = out_pk])
         /\ proc' = [proc EXCEPT ![p] = Idle]
    ELSE /\ proc' = [proc EXCEPT ![p].step = @ + 1, ![p].output_pk = out_pk]
         /\ UNCHANGED history

ReuseInterface(p) ==
    /\ AtWrite(p, "interface")
    /\ output_interface' =
          IF output_interface = {} THEN {[pk |-> NextPk(output_interface)]}
          ELSE output_interface
    /\ Advance(p, IF output_interface = {} THEN NextPk(output_interface)
                  ELSE MaxPk({r.pk : r \in output_interface}))
    /\ UNCHANGED <<parameter, task_instance, task_instance_parameter,
                   output_record, rvars, fvars>>

\* with session.begin(): session.add(astradb.OutputInterface())
CreateInterface(p) ==
    /\ AtWrite(p, "interface")
    /\ output_interface' =
          output_interface \cup {[pk |-> NextPk(output_interface)]}
    /\ Advance(p, NextPk(output_interface))
    /\ UNCHANGED <<parameter, task_instance, task_instance_parameter,
                   output_record, rvars, fvars>>

\* with session.begin(): session.add(model(ti_pk=..., output_pk=..., ...))
CreateRecord(p) ==
    /\ AtWrite(p, "record")
    /\ output_record' = output_record \cup
          {[ti_pk |-> proc[p].ti_pk, output_pk |-> proc[p].output_pk]}
    /\ Advance(p, proc[p].output_pk)
    /\ UNCHANGED <<parameter, task_instance, task_instance_parameter,
                   output_interface, rvars, fvars>>

\* with session.begin(): task_instance.output_pk = output_interface.pk
LinkOutput(p) ==
    /\ AtWrite(p, "link")
    /\ task_instance' =
          {IF ti.pk = proc[p].ti_pk THEN LinkedTo(ti, proc[p].output_pk)
           ELSE ti : ti \in task_instance}
    /\ Advance(p, proc[p].output_pk)
    /\ UNCHANGED <<parameter, task_instance_parameter, output_interface,
                   output_record, rvars, fvars>>

\* The calling process dies between two transactions.
OutputCrash(p) ==
    /\ proc[p].op = "create_task_output"
    /\ history' = Append(history, OutputEntry(p, "crashed"))
    /\ proc' = [proc EXCEPT ![p] = Idle]
    /\ UNCHANGED <<parameter, task_instance, task_instance_parameter,
                   output_interface, output_record, rvars, fvars>>

OutputNext ==
    \E p \in Procs :
        \/ \E target \in OutputTargets : OutputCall(p, target)
        \/ CreateInterface(p)
        \/ CreateRecord(p)
        \/ LinkOutput(p)
        \/ OutputCrash(p)

SpecOutput == OutputInit /\ [][OutputNext]_vars

\* The calls of create_task_output on an instance that returned.
OutputsCreated(ti_pk) ==
    {i \in 1..Len(history) :
        /\ history[i].op = "create_task_output"
        /\ history[i].ended = "returned"
        /\ history[i].ti_pk = ti_pk}

\* Calls on the instance that are in progress, or that crashed after
\* their first write.
Unfinished(ti_pk) ==
    \/ \E p \in Procs :
          proc[p].op = "create_task_output" /\ proc[p].ti_pk = ti_pk
    \/ \E i \in 1..Len(history) :
          /\ history[i].op = "create_task_output"
          /\ history[i].ended = "crashed"
          /\ history[i].ti_pk = ti_pk

RecordsOf(ti_pk) == {r \in output_record : r.ti_pk = ti_pk}

MissingCalls ==
    {i \in 1..Len(history) :
        /\ history[i].op = "create_task_output"
        /\ ~\E ti \in task_instance : ti.pk = history[i].ti_pk}

\* C18: a create_task_output call whose primary key resolves to no
\* TaskInstance fails with ValueError, the not-found error kind, and has
\* written nothing: no output identity, no output record, no reference.
C18_MissingInstanceIsValueError ==
    \A i \in MissingCalls :
        /\ history[i].ended = "ValueError"
        /\ history[i].step = 0
        /\ history[i].output_pk = NULL
        /\ RecordsOf(history[i].ti_pk) = {}

\* The calls of create_task_output that made their first write: those in
\* progress past it, and those in the log that returned or crashed after
\* it.  Each holds the pk of the OutputInterface row it created.
PastFirstWrite ==
    {<<"proc", p>> : p \in {q \in Procs :
                               /\ proc[q] # Idle
                               /\ proc[q].op = "create_task_output"
                               /\ proc[q].step >= 2}}
    \cup {<<"log", i>> : i \in {j \in 1..Len(history) :
                                  /\ history[j].op = "create_task_output"
                                  /\ history[j].step >= 2}}

CallOf(c) == IF c[1] = "proc" THEN proc[c[2]] ELSE history[c[2]]

\* Of those, the calls that also wrote their OutputRecord row.
PastRecordWrite ==
    {c \in PastFirstWrite :
        \/ CallOf(c).step >= 3
        \/ (c[1] = "log" /\ history[c[2]].ended = "returned")}

MaxEdits == 3

EditItems ==
    {Item("release", StrVal("sdss5")), Item("release", StrVal("dr17")),
     Item("mjd", IntVal(59000))}
EditValues == {Serialize(i.value) : i \in EditItems}

\* The join rows of an instance to Parameter rows of the given name.
LinksNamed(tbl, links, ti_pk, key) ==
    {l \in links :
        /\ l.ti_pk = ti_pk
        /\ \E r \in tbl : r.pk = l.parameter_pk /\ r.name = key}

\* task_instance.parameters, the effective parameter map: a dictionary
\* from the names to the values of the Parameter rows joined to the
\* instance.  These are the values it can hold for a key, and its keys.
EffectiveValues(tbl, links, ti_pk, key) ==
    {r.value : r \in {x \in tbl :
        /\ x.name = key
        /\ \E l \in links : l.ti_pk = ti_pk /\ l.parameter_pk = x.pk}}
EffectiveKeys(tbl, links, ti_pk) ==
    {key \in {r.name : r \in tbl} :
        EffectiveValues(tbl, links, ti_pk, key) # {}}

\* task_instance.parameters[key] where the key is present: a dictionary
\* holds one value per key, so of several joined rows of one name one
\* wins; `prefer` stands for the order in which the rows were read.
ReadParameter(tbl, links, ti_pk, key, prefer) ==
    IF prefer \in EffectiveValues(tbl, links, ti_pk, key) THEN prefer
    ELSE CHOOSE v \in EffectiveValues(tbl, links, ti_pk, key) : TRUE

\* What a call leaves: the two tables and the exception it ended in.
Left(tbl, links, raised) ==
    [parameter |-> tbl, links |-> links, raised |-> raised]

\* Whether the join table refuses a second row for one (ti_pk,
\* parameter_pk) pair: its schema decides, so either.
UniqueLinks == BOOLEAN

\* add_task_instance_parameter: no check for a link the instance has.
AddParameter(tbl, links, ti_pk, key, val, unique) ==
    LET g == GetOrCreateParameter(tbl, key, val)
    IN  IF unique /\ \E l \in links :
                        l.ti_pk = ti_pk /\ l.parameter_pk = g.pk
        THEN Left(g.tbl, links, "IntegrityError")
        ELSE Left(g.tbl, AddLinks(links, ti_pk, <<g.pk>>), "none")

DelMissingRaises(tbl, links) == Left(tbl, links, "KeyError")

\* del_task_instance_parameter, `except KeyError: None`: nothing is done
\* and the closing assert holds.
DelMissing(tbl, links) == Left(tbl, links, "none")

\* del_task_instance_parameter, the else clause: the join row of the
\* instance to the (key, value) Parameter row is deleted, then the closing
\* assert looks the key up again.
DelPresent(tbl, links, ti_pk, key, sval) ==
    LET g    == GetOrCreateParameter(tbl, key, StrVal(sval))
        q    == {l \in links : l.ti_pk = ti_pk /\ l.parameter_pk = g.pk}
        left == links \ q
    IN  IF Cardinality(q) > 1
        THEN Left(g.tbl, links, "MultipleResultsFound")
        ELSE Left(g.tbl, left,
                  IF key \in EffectiveKeys(g.tbl, left, ti_pk)
                  THEN "AssertionError" ELSE "none")

DelParameter(tbl, links, ti_pk, key, prefer) ==
    IF EffectiveValues(tbl, links, ti_pk, key) = {}
    THEN DelMissing(tbl, links)
    ELSE DelPresent(tbl, links, ti_pk, key,
                    ReadParameter(tbl, links, ti_pk, key, prefer))

\* update_task_instance_parameters: for every item, del then add; an
\* exception ends the loop.
RECURSIVE UpdateParameters(_, _, _, _, _, _)
UpdateParameters(tbl, links, ti_pk, items, prefer, unique) ==
    IF items = <<>> THEN Left(tbl, links, "none")
    ELSE LET d == DelParameter(tbl, links, ti_pk, Head(items).name, prefer)
         IN  IF d.raised # "none" THEN d
             ELSE LET a == AddParameter(d.parameter, d.links, ti_pk,
                                        Head(items).name, Head(items).value,
                                        unique)
                  IN  IF a.raised # "none" THEN a
                      ELSE UpdateParameters(a.parameter, a.links, ti_pk,
                                            Tail(items), prefer, unique)

\* A call on the store, logged with what it was given and how it ended.
ApplyEdit(op, ti_pk, keys, items, r) ==
    /\ Len(history) < MaxEdits
    /\ parameter' = r.parameter
    /\ task_instance_parameter' = r.links
    /\ history' = Append(history,
          [op |-> op, ti_pk |-> ti_pk, keys |-> keys, items |-> items,
           raised |-> r.raised])
    /\ UNCHANGED <<task_instance, output_interface, output_record, proc,
                   rvars, fvars>>

AddTaskInstanceParameter(ti, item, unique) ==
    ApplyEdit("add_task_instance_parameter", ti.pk, {item.name}, <<item>>,
              AddParameter(parameter, task_instance_parameter, ti.pk,
                           item.name, item.value, unique))

DelTaskInstanceParameter(ti, key, prefer) ==
    ApplyEdit("del_task_instance_parameter", ti.pk, {key}, <<>>,
              DelParameter(parameter, task_instance_parameter, ti.pk,
                           key, prefer))

UpdateTaskInstanceParameters(ti, items, prefer, unique) ==
    ApplyEdit("update_task_instance_parameters", ti.pk,
              {items[i].name : i \in 1..Len(items)}, items,
              UpdateParameters(parameter, task_instance_parameter, ti.pk,
                               items, prefer, unique))

\* One task instance, as create_task_instance leaves it for some
\* parameter dictionary.
LinksInit ==
    /\ RunnerIdle
    /\ NoFiles
    /\ \E ps \in ParameterMaps :
          /\ parameter = ResolveParameters({}, ps).tbl
          /\ task_instance_parameter =
                AddLinks({}, 1, ResolveParameters({}, ps).pks)
    /\ task_instance =
          {[pk |-> 1, dag_id |-> "d1", task_id |-> "t1", run_id |-> "r1",
            output_pk |-> NULL]}
    /\ output_interface = {}
    /\ output_record = {}
    /\ proc = [p \in Procs |-> Idle]
    /\ history = <<>>

LinksNext ==
    \E ti \in task_instance :
        \/ \E item \in EditItems, unique \in UniqueLinks :
              AddTaskInstanceParameter(ti, item, unique)
        \/ \E key \in ParameterNames, prefer \in EditValues :
              DelTaskInstanceParameter(ti, key, prefer)
        \/ \E items \in ParameterMaps, prefer \in EditValues,
              unique \in UniqueLinks :
              UpdateTaskInstanceParameters(ti, items, prefer, unique)

SpecLinks == LinksInit /\ [][LinksNext]_vars

\* The call a step has just logged.
LastEdit == history'[Len(history')]
EditStep(op) == Len(history') = Len(history) + 1 /\ LastEdit.op = op

\* C19: a del_task_instance_parameter call with a key that is not in the
\* instance's effective parameter map raises nothing and changes no join
\* row, no Parameter row and no TaskInstance row.
C19_DelAbsentKeyIsNoOp ==
    [][(/\ EditStep("del_task_instance_parameter")
        /\ \A key \in LastEdit.keys :
              key \notin EffectiveKeys(parameter, task_instance_parameter,
                                       LastEdit.ti_pk))
       => /\ LastEdit.raised = "none"
          /\ UNCHANGED <<parameter, task_instance,
                         task_instance_parameter>>]_vars

C19_Witness ==
    \E i \in 1..Len(history) :
        /\ history[i].op = "del_task_instance_parameter"
        /\ history[i].raised = "none"
        /\ history[i].keys = {"mjd"}
        /\ i > 1
        /\ history[i - 1].op = "del_task_instance_parameter"
        /\ history[i - 1].keys = {"mjd"}
        /\ EffectiveKeys(parameter, task_instance_parameter,
                         history[i].ti_pk) = {"release"}

\* C20: an update_task_instance_parameters call, whatever calls came
\* before it, raises nothing and leaves, for every key k=v it was given,
\* exactly one join row of the instance to a Parameter named k, whose
\* value is v serialized, and every join row for another key as it was.
C20_UpdateIsLastWriteWins ==
    [][EditStep("update_task_instance_parameters") =>
          /\ LastEdit.raised = "none"
          /\ \A i \in 1..Len(LastEdit.items) :
                /\ EffectiveValues(parameter', task_instance_parameter',
                       LastEdit.ti_pk, LastEdit.items[i].name)
                     = {Serialize(LastEdit.items[i].value)}
                /\ Cardinality(LinksNamed(parameter',
                       task_instance_parameter', LastEdit.ti_pk,
                       LastEdit.items[i].name)) = 1
          /\ \A key \in ParameterNames \ LastEdit.keys :
                LinksNamed(parameter', task_instance_parameter',
                           LastEdit.ti_pk, key)
                  = LinksNamed(parameter, task_instance_parameter,
                               LastEdit.ti_pk, key)]_vars


\* C24: no add, del or update call (nor the get_or_create_parameter_pk
\* calls they make) deletes a Parameter row or changes its name or value:
\* every row stays as it is, and a primary key names one row.
C24_ParametersOnlyGrow ==
    [][/\ parameter \subseteq parameter'
       /\ \A r, q \in parameter' : r.pk = q.pk => r = q]_vars

C24_Witness ==
    /\ \E i \in 1..Len(history) :
          /\ history[i].op = "del_task_instance_parameter"
          /\ history[i].raised = "none"
    /\ \E i \in 1..Len(history) :
          history[i].op = "add_task_instance_parameter"
    /\ Cardinality(parameter) >= 3
    /\ \E r \in parameter :
          \A l \in task_instance_parameter : l.parameter_pk # r.pk

\* C29: the assert that ends del_task_instance_parameter holds in every
\* del call and in every del made by an update call, after any sequence
\* of add, del and update calls on the instance.
C29_DelPostconditionHolds ==
    \A i \in 1..Len(history) :
        history[i].op \in {"del_task_instance_parameter",
                           "update_task_instance_parameters"}
            => history[i].raised # "AssertionError"

\* =========================================================================
\* astra/database/utils.py: deserialize_pks and serialize_pks_to_path
\* (specification SpecPks)
\* =========================================================================

\* The longest list among the primary keys handed to serialize_pks_to_path.
MaxWidth == 2

\* Python values: an int, a float (by its integer part), a list (a tuple
\* is treated alike), a str (its characters) and None.
Py(t, n, items, chars) ==
    [t |-> t, n |-> n, items |-> items, chars |-> chars]
PyInt(n) == Py("int", n, <<>>, <<>>)
PyFloat(n) == Py("float", n, <<>>, <<>>)
PyList(items) == Py("list", 0, items, <<>>)
PyStr(chars) == Py("str", 0, <<>>, chars)
PyNone == Py("none", 0, <<>>, <<>>)
\* A call that ends in an exception of the given class.
Raise(kind) == Py("raise", 0, <<>>, <<kind>>)
IsRaise(x) == x.t = "raise"
RaisedKind(x) == x.chars[1]

\* ---- json

Digits == {Digit(d) : d \in 0..9}
DigitValue(c) == CHOOSE d \in 0..9 : Digit(d) = c

RECURSIVE IntChars(_)
IntChars(n) ==
    IF n < 10 THEN <<Digit(n)>> ELSE IntChars(n \div 10) \o <<Digit(n % 10)>>

\* json.dumps of an int or of a list, with the default separators.
RECURSIVE JsonDump(_), JsonDumpItems(_)
JsonDump(val) ==
    IF val.t = "int" THEN IntChars(val.n)
    ELSE <<"[">> \o JsonDumpItems(val.items) \o <<"]">>
JsonDumpItems(items) ==
    IF items = <<>> THEN <<>>
    ELSE IF Tail(items) = <<>> THEN JsonDump(Head(items))
    ELSE JsonDump(Head(items)) \o <<",", " ">> \o JsonDumpItems(Tail(items))

RECURSIVE SkipSpace(_)
SkipSpace(s) ==
    IF s # <<>> /\ Head(s) = " " THEN SkipSpace(Tail(s)) ELSE s

\* The json decoder on texts of digits, brackets, commas, double quotes
\* and blanks: what it read and what is left, or a failure.
Parsed(val, rest) == [ok |-> TRUE, val |-> val, rest |-> rest]
ParseFail == [ok |-> FALSE, val |-> PyNone, rest |-> <<>>]

\* A number: 0, or a run of digits that does not start with 0.
RECURSIVE ParseDigits(_, _)
ParseDigits(s, n) ==
    IF s # <<>> /\ Head(s) \in Digits
    THEN ParseDigits(Tail(s), 10 * n + DigitValue(Head(s)))
    ELSE Parsed(PyInt(n), s)
ParseNumber(s) ==
    IF Head(s) = "0" THEN Parsed(PyInt(0), Tail(s)) ELSE ParseDigits(s, 0)

\* A string, after its opening quote: the characters up to the next one.
RECURSIVE ParseString(_, _)
ParseString(s, chars) ==
    IF s = <<>> THEN ParseFail
    ELSE IF Head(s) = "\"" THEN Parsed(PyStr(chars), Tail(s))
    ELSE ParseString(Tail(s), Append(chars, Head(s)))

RECURSIVE ParseValue(_), ParseItems(_, _)
ParseValue(s) ==
    LET t == SkipSpace(s)
    IN  IF t = <<>> THEN ParseFail
        ELSE IF Head(t) \in Digits THEN ParseNumber(t)
        ELSE IF Head(t) = "\"" THEN ParseString(Tail(t), <<>>)
        ELSE IF Head(t) = "["
        THEN LET u == SkipSpace(Tail(t))
             IN  IF u # <<>> /\ Head(u) = "]"
                 THEN Parsed(PyList(<<>>), Tail(u))
                 ELSE ParseItems(u, <<>>)
        ELSE ParseFail
ParseItems(s, items) ==
    LET r == ParseValue(s)
        u == SkipSpace(r.rest)
    IN  IF ~r.ok \/ u = <<>> THEN ParseFail
        ELSE IF Head(u) = "," THEN ParseItems(Tail(u), Append(items, r.val))
        ELSE IF Head(u) = "]"
        THEN Parsed(PyList(Append(items, r.val)), Tail(u))
        ELSE ParseFail

\* json.loads / json.load: the value, or JSONDecodeError, a ValueError.
JsonLoads(s) ==
    LET r == ParseValue(s)
    IN  IF r.ok /\ SkipSpace(r.rest) = <<>> THEN r.val
        ELSE Raise("ValueError")

\* ---- the file system

Exists(fs, path) == \E f \in fs : f.path = path
ReadText(fs, path) == (CHOOSE f \in fs : f.path = path).text
\* The names mktemp can give.
TmpPaths == {<<"/", "t", "/", "a">>}

\* ---- deserialize_pks

\* pk.replace("'", '"')
Replace(chars) ==
    [i \in 1..Len(chars) |-> IF chars[i] = "'" THEN "\"" ELSE chars[i]]

\* The contents a str stands for: those of the file of that name, or the
\* str itself read as json, where any failure is turned into ValueError.
Contents(chars, fs) ==
    IF Exists(fs, chars) THEN JsonLoads(ReadText(fs, chars))
    ELSE JsonLoads(Replace(chars))

\* What iterating over the contents gives: the items of a list, the
\* characters of a str.
Iterate(contents) ==
    IF contents.t = "list" THEN contents.items
    ELSE [i \in 1..Len(contents.chars) |-> PyStr(<<contents.chars[i]>>)]

\* deserialize_pks(pk) with flatten=False, and list(map(deserialize_pks,
\* items)), which ends in the first exception an item raises.
RECURSIVE Deserialize(_, _), DeserializeAll(_, _)
Deserialize(pk, fs) ==
    IF pk.t = "int" THEN pk
    ELSE IF pk.t = "float" THEN PyInt(pk.n)
    ELSE IF pk.t = "list" THEN DeserializeAll(pk.items, fs)
    ELSE IF pk.t = "str"
    THEN LET contents == Contents(pk.chars, fs)
         IN  IF IsRaise(contents) THEN contents
             ELSE IF contents.t \in {"list", "str"}
             THEN DeserializeAll(Iterate(contents), fs)
             ELSE Raise("TypeError")
    ELSE Raise("ValueError")
DeserializeAll(items, fs) ==
    IF items = <<>> THEN PyList(<<>>)
    ELSE LET first == Deserialize(Head(items), fs)
             rest  == DeserializeAll(Tail(items), fs)
         IN  IF IsRaise(first) THEN first
             ELSE IF IsRaise(rest) THEN rest
             ELSE PyList(<<first>> \o rest.items)

\* astra.utils.flatten: the leaves of a nested list, depth first.
RECURSIVE Flatten(_), FlattenItems(_)
Flatten(val) == IF val.t = "list" THEN FlattenItems(val.items) ELSE <<val>>
FlattenItems(items) ==
    IF items = <<>> THEN <<>>
    ELSE Flatten(Head(items)) \o FlattenItems(Tail(items))

\* deserialize_pks(pk, flatten)
DeserializePksResult(pk, flatten, fs) ==
    LET v == Deserialize(pk, fs)
    IN  IF IsRaise(v) THEN v
        ELSE IF flatten THEN PyList(Flatten(PyList(<<v>>)))
        ELSE v

WrittenEmpty(pks) == <<>>

\* json.dump(pks, fp)
Written(pks) == JsonDump(pks)

\* ---- the arguments

PkInts == {PyInt(1), PyInt(23)}
ListsOf(elements) ==
    {PyList(s) : s \in UNION {[1..n -> elements] : n \in 0..MaxWidth}}
NestedLists == ListsOf(PkInts \cup ListsOf(PkInts))
ExamplePks ==
    PyList(<<PyList(<<PyInt(1), PyInt(2)>>), PyList(<<PyInt(3)>>)>>)
DeepPks ==
    PyList(<<PyInt(10), PyList(<<PyList(<<PyInt(4), PyList(<<>>)>>)>>)>>)
\* What serialize_pks_to_path is given: nested lists, or a bare int.
SerializeInputs == NestedLists \cup {ExamplePks, DeepPks} \cup PkInts

PkTexts ==
    {<<>>,
     <<"x">>,
     <<"5">>,
     <<"0", "1">>,
     <<"[", "1", "]">>,
     <<"[", "1", ",", " ", "2", "3", "]">>,
     <<"[", "[", "1", "]", ",", "[", "2", "3", "]", "]">>,
     <<"[", "1", ",">>,
     <<"[", "1", ",", "]">>,
     <<"'", "1", "'">>,
     <<"[", "'", "[", "1", "]", "'", "]">>,
     <<"[", "\"", "x", "\"", "]">>}
\* What deserialize_pks is given directly.
DirectInputs ==
    {PyInt(7), PyFloat(2), PyNone,
     PyList(<<>>),
     PyList(<<PyInt(1), PyFloat(2)>>),
     PyList(<<PyInt(1), PyNone>>),
     PyList(<<PyStr(<<"[", "1", "]">>), PyInt(2)>>)}
    \cup {PyStr(chars) : chars \in PkTexts \cup TmpPaths}
    \cup {PyList(<<PyStr(path), PyInt(7)>>) : path \in TmpPaths}

\* ---- the calls

PksInit == RunnerIdle /\ DbInit /\ NoFiles

Deserialized == \E i \in 1..Len(history) : history[i].op = "deserialize_pks"

\* The names mktemp can still give: those no file has.
FreePaths == {path \in TmpPaths : ~Exists(files, path)}

\* path = mktemp(); json.dump(pks, fp); return path
SerializePksToPath(pks) ==
    /\ \E path \in FreePaths :
          /\ files' = files \cup {[path |-> path, text |-> Written(pks)]}
          /\ history' = Append(history,
                [op |-> "serialize_pks_to_path", arg |-> pks,
                 flatten |-> FALSE, result |-> PyStr(path)])
    /\ UNCHANGED <<parameter, task_instance, task_instance_parameter,
                   output_interface, output_record, proc, rvars>>

\* deserialize_pks(pk, flatten), the last call of a run.
DeserializePks(pk, flatten) ==
    /\ history' = Append(history,
          [op |-> "deserialize_pks", arg |-> pk, flatten |-> flatten,
           result |-> DeserializePksResult(pk, flatten, files)])
    /\ UNCHANGED <<parameter, task_instance, task_instance_parameter,
                   output_interface, output_record, proc, rvars, fvars>>

\* A run: primary keys may be written to a file, then one argument is
\* deserialized.
PksNext ==
    /\ ~Deserialized
    /\ \/ /\ FreePaths # {}
          /\ \E pks \in SerializeInputs : SerializePksToPath(pks)
       \/ \E pk \in DirectInputs, flatten \in BOOLEAN :
             DeserializePks(pk, flatten)

SpecPks == PksInit /\ [][PksNext]_vars

\* The integers of a nested list, depth first and left to right.
RECURSIVE DepthFirst(_)
DepthFirst(pks) ==
    IF pks.t = "int" THEN <<pks>>
    ELSE Concat([i \in 1..Len(pks.items) |-> DepthFirst(pks.items[i])])

\* The deserialize_pks call of a run, given the path an earlier
\* serialize_pks_to_path call of a list returned.
RoundTrip(i, j) ==
    /\ i < j
    /\ history[i].op = "serialize_pks_to_path"
    /\ history[i].arg.t = "list"
    /\ history[j].op = "deserialize_pks"
    /\ history[j].arg.t = "str"
    /\ history[j].arg.chars = history[i].result.chars

\* C15: deserialize_pks with flatten=True, given the path that
\* serialize_pks_to_path returned for a nested list of integers, returns
\* the flat list of those integers in depth-first left-to-right order.
C15_RoundTrip ==
    \A i, j \in 1..Len(history) :
        (RoundTrip(i, j) /\ history[j].flatten) =>
            /\ history[j].result.t = "list"
            /\ history[j].result.items = DepthFirst(history[i].arg)

C15_Witness ==
    \E i, j \in 1..Len(history) :
        /\ RoundTrip(i, j)
        /\ history[j].flatten
        /\ history[i].arg = ExamplePks
        /\ history[j].result = PyList(<<PyInt(1), PyInt(2), PyInt(3)>>)

\* C16: every deserialize_pks call that does not return ends in
\* ValueError, whatever it was given: no other exception escapes.
C16_OnlyValueErrorEscapes ==
    \A i \in 1..Len(history) :
        (history[i].op = "deserialize_pks" /\ IsRaise(history[i].result))
            => RaisedKind(history[i].result) = "ValueError"

\* ------------------------------------------------------------------
\* create_task_instances_for_sdss5_apstars and its variants: one task
\* instance per star, then the primary keys are returned, inline or as the
\* path of a file.
\* ------------------------------------------------------------------

\* How many stars the catalogue query returns at most.
MaxStars == 2
\* How many times task instances are created for a night.
MaxStarCalls == 2

\* all_kwds = get_sdss5_apstar_kwds(mjd, limit=limit): the identifying
\* keywords of n distinct stars.
StarKwds(n) ==
    [i \in 1..n |-> <<Item("healpix", IntVal(i)),
                      Item("release", StrVal("sdss5"))>>]

\* The loop over all_kwds: get_or_create_task_instance for every star (the
\* row, then its parameters and links), pks.append(instance.pk).
RECURSIVE CreateForAll(_, _, _, _, _, _, _)
CreateForAll(tis, tbl, links, dag_id, task_id, run_id, all_kwds) ==
    IF all_kwds = <<>>
    THEN [task_instance |-> tis, parameter |-> tbl, links |-> links,
          pks |-> <<>>]
    ELSE LET pk   == NextPk(tis)
             r    == ResolveParameters(tbl, Head(all_kwds))
             rest == CreateForAll(
                        tis \cup {[pk |-> pk, dag_id |-> dag_id,
                                   task_id |-> task_id, run_id |-> run_id,
                                   output_pk |-> NULL]},
                        r.tbl, AddLinks(links, pk, r.pks),
                        dag_id, task_id, run_id, Tail(all_kwds))
         IN  [rest EXCEPT !.pks = <<PyInt(pk)>> \o rest.pks]

ReturnsListOnlyIfAsked(pks, return_list) == return_list

\* if not pks or return_list: return pks
ReturnsList(pks, return_list) == pks = <<>> \/ return_list

\* One call.  In the log, arg is the list pks the loop built, flatten holds
\* return_list, and result is what the call returned.
CreateTaskInstancesFor(dag_id, task_id, run_id, n, return_list) ==
    LET r == CreateForAll(task_instance, parameter, task_instance_parameter,
                          dag_id, task_id, run_id, StarKwds(n))
        entry(result) ==
            [op |-> "create_task_instances_for_sdss5_apstars",
             arg |-> PyList(r.pks), flatten |-> return_list,
             result |-> result]
    IN  /\ Len(history) < MaxStarCalls
        /\ task_instance' = r.task_instance
        /\ parameter' = r.parameter
        /\ task_instance_parameter' = r.links
        /\ IF ReturnsList(r.pks, return_list)
           THEN /\ history' = Append(history, entry(PyList(r.pks)))
                /\ UNCHANGED files
           ELSE \E path \in FreePaths :
                   /\ files' = files \cup
                          {[path |-> path, text |-> Written(PyList(r.pks))]}
                   /\ history' = Append(history, entry(PyStr(path)))
        /\ UNCHANGED <<output_interface, output_record, proc, rvars>>

StarsInit == RunnerIdle /\ DbInit /\ NoFiles

\* A run: task instances are created for some nights, then what one of the
\* calls returned is handed to deserialize_pks.
StarsNext ==
    /\ ~Deserialized
    /\ \/ \E dag_id \in DagIds, task_id \in TaskIds, run_id \in RunIds,
             n \in 0..MaxStars, return_list \in BOOLEAN :
             CreateTaskInstancesFor(dag_id, task_id, run_id, n, return_list)
       \/ \E i \in 1..Len(history), flatten \in BOOLEAN :
             DeserializePks(history[i].result, flatten)

SpecStars == StarsInit /\ [][StarsNext]_vars

StarCalls ==
    {i \in 1..Len(history) :
        history[i].op = "create_task_instances_for_sdss5_apstars"}

\* The paths the calls so far returned.
ReturnedPaths ==
    {history[i].result.chars : i \in {j \in StarCalls :
                                         history[j].result.t = "str"}}

CallerProc == CHOOSE p \in RegistryProcs : TRUE
CallerStart == [op |-> "caller", asked |-> 0, stopped |-> FALSE]
Caller == proc[CallerProc]

RunsAhead(caller, seen) == ~caller.stopped

\* The body of a generator runs only inside a call of next(): from the
\* call until the next yield hands a record over.
InGenerator(caller, seen) == ~caller.stopped /\ seen < caller.asked

\* The caller has control: the generator is not started, or is suspended
\* at a yield, or has ended.
CallerHolds == ~Caller.stopped /\ Len(yielded) = Caller.asked

\* next(task(...))
CallerNext ==
    /\ CallerHolds
    /\ pc \notin {"done", "failed"}
    /\ proc' = [proc EXCEPT ![CallerProc].asked = @ + 1]
    /\ UNCHANGED <<rvars, parameter, task_instance, task_instance_parameter,
                   output_interface, output_record, history, fvars>>

\* GeneratorExit thrown at a yield of `task`: both `yield from results` are
\* outside the try body (in its else clause, and after the loop), so no
\* except clause sees it and the generator ends there.
AfterClose(at) == IF at \in {"done", "failed"} THEN at ELSE "closed"

\* The caller stops pulling: it just never calls next() again, or it
\* closes the generator (close(), or the generator is collected).
CallerStop(close) ==
    /\ CallerHolds
    /\ proc' = [proc EXCEPT ![CallerProc].stopped = TRUE]
    /\ pc' = IF close THEN AfterClose(pc) ELSE pc
    /\ UNCHANGED <<re_raise_exceptions, batch_size, backend, gen, produced,
                   results, yieldIdx, yielded, calls, table, tableExists,
                   nextId, parameter, task_instance, task_instance_parameter,
                   output_interface, output_record, history, fvars>>

CallerInit ==
    /\ RunnerInit
    /\ NoFiles
    /\ parameter = {}
    /\ task_instance = {}
    /\ task_instance_parameter = {}
    /\ output_interface = {}
    /\ output_record = {}
    /\ history = <<>>
    /\ proc = [p \in Procs |-> IF p = CallerProc THEN CallerStart ELSE Idle]

CallerSpecNext ==
    \/ InGenerator(Caller, Len(yielded)) /\ Next
    \/ CallerNext
    \/ \E close \in BOOLEAN : CallerStop(close)

SpecCaller == CallerInit /\ [][CallerSpecNext]_vars

\* C34: a record is pulled from the computation, and a batch is written,
\* only in a step made while a next() of the caller is in progress; once
\* the caller has stopped pulling it stays stopped, and no record is
\* pulled, no batch is written and nothing is yielded any more.
C34_RunsOnlyWhilePulled ==
    [][/\ (produced' # produced \/ calls' # calls \/ table' # table
             \/ gen' # gen)
          => (~Caller.stopped /\ Len(yielded) < Caller.asked)
       /\ Caller.stopped
          => /\ proc'[CallerProc].stopped
             /\ UNCHANGED <<produced, calls, table, gen, results, yielded>>
      ]_vars

C34_Witness ==
    /\ Caller.stopped
    /\ Len(yielded) >= 1
    /\ produced < MaxRecords
    /\ gen = "live"
    /\ Len(calls) >= 1
    /\ yieldIdx < Len(results)

====
